---- MODULE Spec2Model ----
(***************************************************************************)
(* A model of juju/charm.py: the charm event taxonomy (CharmEvents,        *)
(* CharmBase) and the charm metadata model (CharmMetadata and the          *)
(* definitions nested in it).                                              *)
(*                                                                         *)
(* Python strings on which the code computes (event kinds, relation and    *)
(* storage names, range tokens) are sequences of one-character strings,    *)
(* so that concatenation, `in` and split are computed as Python computes   *)
(* them.  A Python dict is a sequence of <<key, value>> pairs with         *)
(* distinct keys, in insertion order.  A call returns a record             *)
(* [exc, arg, val]: exc = "None" and val the value when it returns, exc    *)
(* the exception and arg its argument when it raises.                      *)
(***************************************************************************)
EXTENDS Integers, Sequences, FiniteSets

VARIABLES
    declarations,   \* the event declarations of CharmBase.on: kind -> event type
    instances,      \* the CharmBase instances constructed so far: of self.metadata, the
                    \* relation and storage names; and the kinds declared when __init__ returned
    constructions,  \* number of CharmBase(...) calls made so far
    extended,       \* kinds registered with define_event after class definition, outside __init__
    op,             \* the last operation called
    input,          \* its argument
    outcome,        \* what it returned or raised: [exc, arg, val]
    pre             \* `declarations` as it was when the last operation began

vars == <<declarations, instances, constructions, extended, op, input, outcome, pre>>

(***************************************************************************)
(* Bounds of the model.                                                    *)
(***************************************************************************)
\* longest range token tried
MaxTokLen == 5
\* most nested definitions (relations, storage, resources, payloads) in a raw description
MaxDefs == 2
\* most CharmBase(...) calls in a behaviour
MaxConstructions == 2

(***************************************************************************)
(* Python values.  An optional value is None or Some(x).                   *)
(***************************************************************************)
None == <<>>

Some(x) == <<x>>

Return(v) == [exc |-> "None", arg |-> <<>>, val |-> v]

Raise(e, a) == [exc |-> e, arg |-> a, val |-> <<>>]

Raised(r) == r.exc # "None"

\* sub in s
Contains(sub, s) ==
    \E i \in 0..(Len(s) - Len(sub)) : SubSeq(s, i + 1, i + Len(sub)) = sub

\* s.split(sep), sep one character: the pieces between successive separators
split(s, sep) ==
    LET cuts == {0} \cup {i \in 1..Len(s) : s[i] = sep} \cup {Len(s) + 1}
        cut(k) == CHOOSE c \in cuts : Cardinality({d \in cuts : d < c}) = k
    IN  [k \in 1..(Cardinality(cuts) - 1) |-> SubSeq(s, cut(k - 1) + 1, cut(k) - 1)]

Digits == {"0", "1", "2", "3", "4", "5", "6", "7", "8", "9"}

DigitValue(c) ==
    CASE c = "0" -> 0 [] c = "1" -> 1 [] c = "2" -> 2 [] c = "3" -> 3 [] c = "4" -> 4
      [] c = "5" -> 5 [] c = "6" -> 6 [] c = "7" -> 7 [] c = "8" -> 8 [] c = "9" -> 9

RECURSIVE DecimalValue(_)
DecimalValue(s) ==
    IF Len(s) = 0 THEN 0
    ELSE 10 * DecimalValue(SubSeq(s, 1, Len(s) - 1)) + DigitValue(s[Len(s)])

\* int(s) for s over RangeChars: a non-empty run of digits converts, anything else raises
int(s) ==
    IF Len(s) > 0 /\ \A i \in 1..Len(s) : s[i] \in Digits
    THEN Return(DecimalValue(s))
    ELSE Raise("ValueError", s)

\* dict operations on sequences of <<key, value>> pairs
keys(d) == [i \in 1..Len(d) |-> d[i][1]]

keyset(d) == {d[i][1] : i \in 1..Len(d)}

has(d, k) == k \in keyset(d)

item(d, k) == d[CHOOSE i \in 1..Len(d) : d[i][1] = k][2]

\* d[k] = v: an existing key keeps its position
setitem(d, k, v) ==
    IF has(d, k)
    THEN [i \in 1..Len(d) |-> IF d[i][1] = k THEN <<k, v>> ELSE d[i]]
    ELSE Append(d, <<k, v>>)

\* d.update(other): the keys d has keep their position and take other's value, the
\* keys new to d follow in other's order
update(d, other) ==
    [i \in 1..Len(d) |-> IF has(other, d[i][1]) THEN <<d[i][1], item(other, d[i][1])>> ELSE d[i]]
    \o SelectSeq(other, LAMBDA p : ~ has(d, p[1]))

\* raw.get(k, default) for a raw definition, a record
get(raw, k, default) == IF k \in DOMAIN raw THEN raw[k] ELSE default

\* raw.get(k): the value, or None
getopt(raw, k) == IF k \in DOMAIN raw THEN Some(raw[k]) ELSE None

(***************************************************************************)
(* StorageDefinition.__init__                                              *)
(***************************************************************************)
\* lines 234-239: the range of a storage definition that declares 'multiple'
parse_range(range) ==
    IF ~ Contains(<<"-">>, range)
    THEN LET n == int(range)
         IN  IF Raised(n) THEN n ELSE Return(<<n.val, Some(n.val)>>)
    ELSE LET parts == split(range, "-")
             lo == int(parts[1])
             hi == int(parts[2])
         IN  IF Raised(lo) THEN lo
             ELSE IF parts[2] = <<>> THEN Return(<<lo.val, None>>)
             ELSE IF Raised(hi) THEN hi
             ELSE Return(<<lo.val, Some(hi.val)>>)

StorageDefinition(name, raw) ==
    IF "type" \notin DOMAIN raw THEN Raise("KeyError", <<"type">>)
    ELSE LET is_multiple == "multiple" \in DOMAIN raw
             range == IF ~ is_multiple THEN Return(None)
                      ELSE IF "range" \notin DOMAIN raw.multiple
                           THEN Raise("KeyError", <<"range">>)
                           ELSE parse_range(raw.multiple.range)
         IN  IF Raised(range) THEN range
             ELSE Return([storage_name |-> name,
                          type |-> raw.type,
                          description |-> get(raw, "description", ""),
                          shared |-> get(raw, "shared", FALSE),
                          read_only |-> get(raw, "read-only", FALSE),
                          minimum_size |-> getopt(raw, "minimum-size"),
                          location |-> getopt(raw, "location"),
                          is_multiple |-> is_multiple,
                          range |-> range.val])

(***************************************************************************)
(* RelationDefinition, ResourceDefinition, PayloadDefinition               *)
(***************************************************************************)
RelationDefinition(role, relation_name, raw) ==
    IF "interface" \notin DOMAIN raw THEN Raise("KeyError", <<"interface">>)
    ELSE Return([role |-> role,
                 relation_name |-> relation_name,
                 interface_name |-> raw.interface,
                 scope |-> getopt(raw, "scope")])

ResourceDefinition(name, raw) ==
    IF "type" \notin DOMAIN raw THEN Raise("KeyError", <<"type">>)
    ELSE IF "filename" \notin DOMAIN raw THEN Raise("KeyError", <<"filename">>)
    ELSE Return([resource_name |-> name,
                 type |-> raw.type,
                 filename |-> raw.filename,
                 description |-> get(raw, "description", "")])

PayloadDefinition(name, raw) ==
    IF "type" \notin DOMAIN raw THEN Raise("KeyError", <<"type">>)
    ELSE Return([payload_name |-> name, type |-> raw.type])

(***************************************************************************)
(* CharmMetadata.__init__                                                  *)
(***************************************************************************)
\* the definition class each section of the raw description is built with
Definition(section, name, raw) ==
    CASE section \in {"requires", "provides", "peers"} -> RelationDefinition(section, name, raw)
      [] section = "storage" -> StorageDefinition(name, raw)
      [] section = "resources" -> ResourceDefinition(name, raw)
      [] section = "payloads" -> PayloadDefinition(name, raw)

\* the dict a comprehension yields from the definitions built for its items: the first
\* definition that raises ends it
collected(items, built) ==
    IF \E i \in 1..Len(items) : Raised(built[i])
    THEN built[CHOOSE i \in 1..Len(items) :
                  Raised(built[i]) /\ \A j \in 1..(i - 1) : ~ Raised(built[j])]
    ELSE Return([i \in 1..Len(items) |-> <<items[i][1], built[i].val>>])

\* {name: Definition(name, raw) for name, raw in raw.get(section, {}).items()}
comprehension(raw, section) ==
    collected(get(raw, section, <<>>),
              [i \in 1..Len(get(raw, section, <<>>)) |->
                  Definition(section, get(raw, section, <<>>)[i][1],
                             get(raw, section, <<>>)[i][2])])

\* a variant that lets the first role listing a name keep it
merge_relations_first_wins(requires, provides, peers) ==
    update(update(update(<<>>, peers), provides), requires)

\* a variant that appends the three roles without merging equal names
merge_relations_appended(requires, provides, peers) ==
    requires \o provides \o peers

\* lines 188-191: requires, then provides, then peers, each overwriting
merge_relations(requires, provides, peers) ==
    update(update(update(<<>>, requires), provides), peers)

\* the sections, in the order lines 182-197 build them
Sections == <<"requires", "provides", "peers", "storage", "resources", "payloads">>

\* lines 168-198, given the outcome of each section's comprehension
metadata_of(raw, built) ==
    IF \E i \in 1..Len(Sections) : Raised(built[Sections[i]])
    THEN built[Sections[CHOOSE i \in 1..Len(Sections) :
                           /\ Raised(built[Sections[i]])
                           /\ \A j \in 1..(i - 1) : ~ Raised(built[Sections[j]])]]
    ELSE Return([name |-> get(raw, "name", ""),
                 summary |-> get(raw, "summary", ""),
                 description |-> get(raw, "description", ""),
                 maintainers |->
                     (IF "maintainer" \in DOMAIN raw THEN <<raw.maintainer>> ELSE <<>>)
                     \o (IF "maintainers" \in DOMAIN raw THEN raw.maintainers ELSE <<>>),
                 tags |-> get(raw, "tags", <<>>),
                 terms |-> get(raw, "terms", <<>>),
                 series |-> get(raw, "series", <<>>),
                 subordinate |-> get(raw, "subordinate", FALSE),
                 min_juju_version |-> getopt(raw, "min-juju-version"),
                 requires |-> built.requires.val,
                 provides |-> built.provides.val,
                 peers |-> built.peers.val,
                 relations |-> merge_relations(built.requires.val, built.provides.val,
                                               built.peers.val),
                 storage |-> built.storage.val,
                 resources |-> built.resources.val,
                 payloads |-> built.payloads.val,
                 extra_bindings |-> get(raw, "extra-bindings", <<>>)])

CharmMetadata(raw) ==
    metadata_of(raw, [section \in {Sections[i] : i \in 1..Len(Sections)} |->
                         comprehension(raw, section)])

(***************************************************************************)
(* Raw descriptions: a charm name and at most n nested definitions, each   *)
(* a <<section, name, raw definition>> of `defs`, in every insertion       *)
(* order.                                                                  *)
(***************************************************************************)
s_db == <<"d","b">>

s_a_b == <<"a","_","b">>

s_lg == <<"l","g">>

\* a plain name and a name with an underscore in it
TaxonomyNames == {s_db, s_a_b}

BaseRaw == [name |-> "charm"]

AddDef(raw, d) ==
    [k \in DOMAIN raw \cup {d[1]} |->
        IF k = d[1] THEN Append(get(raw, k, <<>>), <<d[2], d[3]>>) ELSE raw[k]]

RECURSIVE Raws(_, _)
Raws(defs, n) ==
    IF n = 0 THEN {BaseRaw}
    ELSE LET fewer == Raws(defs, n - 1)
         IN  fewer \cup {AddDef(r, d) : <<r, d>> \in
                            {p \in fewer \X defs : ~ has(get(p[1], p[2][1], <<>>), p[2][2])}}

RelationRaws ==
    {[interface |-> "http"],
     [interface |-> "pgsql", scope |-> "container"],
     [scope |-> "global"]}

StorageRaws ==
    {[type |-> "filesystem"],
     [description |-> "scratch"],
     [type |-> "block", multiple |-> [range |-> <<"2","-">>]],
     [type |-> "block", multiple |-> [range |-> <<"x">>]]}

ResourceRaws ==
    {[type |-> "file", filename |-> "data.tgz"],
     [type |-> "file"],
     [filename |-> "data.tgz"]}

PayloadRaws == {[type |-> "docker"], [description |-> "untyped"]}

MetaNames == {s_db, s_lg}

MetaDefs ==
    ({"requires", "provides", "peers"} \X MetaNames \X RelationRaws)
    \cup ({"storage"} \X MetaNames \X StorageRaws)
    \cup ({"resources"} \X MetaNames \X ResourceRaws)
    \cup ({"payloads"} \X MetaNames \X PayloadRaws)

InitMeta ==
    /\ declarations = <<>>
    /\ instances = <<>>
    /\ constructions = 0
    /\ extended = {}
    /\ op = "input"
    /\ input \in Raws(MetaDefs, MaxDefs)
    /\ outcome = Return(None)
    /\ pre = <<>>

NewCharmMetadata ==
    /\ op = "input"
    /\ op' = "CharmMetadata"
    /\ outcome' = CharmMetadata(input)
    /\ UNCHANGED <<declarations, instances, constructions, extended, input, pre>>

NextMeta == NewCharmMetadata

SpecMeta == InitMeta /\ [][NextMeta]_vars

(***************************************************************************)
(* Range tokens: every string over RangeChars of at most MaxTokLen         *)
(* characters.                                                             *)
(***************************************************************************)
RangeChars == {"1", "2", "3", "5", "-", "x"}

RangeTokens == UNION {[1..n -> RangeChars] : n \in 0..MaxTokLen}

s_logs == <<"l","o","g","s">>

RangeRaw(tok) == [type |-> "filesystem", multiple |-> [range |-> tok]]

InitRange ==
    /\ declarations = <<>>
    /\ instances = <<>>
    /\ constructions = 0
    /\ extended = {}
    /\ op = "input"
    /\ input \in RangeTokens
    /\ outcome = Return(None)
    /\ pre = <<>>

NewStorageDefinition ==
    /\ op = "input"
    /\ op' = "StorageDefinition"
    /\ outcome' = StorageDefinition(s_logs, RangeRaw(input))
    /\ UNCHANGED <<declarations, instances, constructions, extended, input, pre>>

NextRange == NewStorageDefinition

SpecRange == InitRange /\ [][NextRange]_vars

(***************************************************************************)
(* The event taxonomy: CharmEvents and CharmBase                           *)
(***************************************************************************)
s_install ==
    <<"i","n","s","t","a","l","l">>

s_start ==
    <<"s","t","a","r","t">>

s_stop ==
    <<"s","t","o","p">>

s_update_status ==
    <<"u","p","d","a","t","e","_","s","t","a","t","u","s">>

s_config_changed ==
    <<"c","o","n","f","i","g","_","c","h","a","n","g","e","d">>

s_upgrade_charm ==
    <<"u","p","g","r","a","d","e","_","c","h","a","r","m">>

s_pre_series_upgrade ==
    <<"p","r","e","_","s","e","r","i","e","s","_","u","p","g","r","a","d","e">>

s_post_series_upgrade ==
    <<"p","o","s","t","_","s","e","r","i","e","s","_","u","p","g","r","a","d","e">>

s_leader_elected ==
    <<"l","e","a","d","e","r","_","e","l","e","c","t","e","d">>

s_leader_settings_changed ==
    <<"l","e","a","d","e","r","_","s","e","t","t","i","n","g","s","_","c","h","a","n","g","e","d">>

s_relation_joined ==
    <<"_","r","e","l","a","t","i","o","n","_","j","o","i","n","e","d">>

s_relation_changed ==
    <<"_","r","e","l","a","t","i","o","n","_","c","h","a","n","g","e","d">>

s_relation_departed ==
    <<"_","r","e","l","a","t","i","o","n","_","d","e","p","a","r","t","e","d">>

s_relation_broken ==
    <<"_","r","e","l","a","t","i","o","n","_","b","r","o","k","e","n">>

s_storage_attached ==
    <<"_","s","t","o","r","a","g","e","_","a","t","t","a","c","h","e","d">>

s_storage_detaching ==
    <<"_","s","t","o","r","a","g","e","_","d","e","t","a","c","h","i","n","g">>

s_relation_ ==
    <<"_","r","e","l","a","t","i","o","n","_">>

s_storage_ ==
    <<"_","s","t","o","r","a","g","e","_">>

\* class CharmEvents: the events declared in the class body
CharmEvents ==
    [event_kind \in {s_install, s_start, s_stop, s_update_status, s_config_changed,
                     s_upgrade_charm, s_pre_series_upgrade, s_post_series_upgrade,
                     s_leader_elected, s_leader_settings_changed} |->
        CASE event_kind = s_install -> "InstallEvent"
          [] event_kind = s_start -> "StartEvent"
          [] event_kind = s_stop -> "StopEvent"
          [] event_kind = s_update_status -> "UpdateStatusEvent"
          [] event_kind = s_config_changed -> "ConfigChangedEvent"
          [] event_kind = s_upgrade_charm -> "UpgradeCharmEvent"
          [] event_kind = s_pre_series_upgrade -> "PreSeriesUpgradeEvent"
          [] event_kind = s_post_series_upgrade -> "PostSeriesUpgradeEvent"
          [] event_kind = s_leader_elected -> "LeaderElectedEvent"
          [] event_kind = s_leader_settings_changed -> "LeaderSettingsChangedEvent"]

\* EventsBase.define_event(event_kind, event_type) of juju.framework: registers the
\* declaration, or fails when the kind is already registered
define_event(decls, event_kind, event_type) ==
    IF event_kind \in DOMAIN decls
    THEN [declarations |-> decls, outcome |-> Raise("DuplicateDeclaration", event_kind)]
    ELSE [declarations |-> [k \in DOMAIN decls \cup {event_kind} |->
                               IF k = event_kind THEN event_type ELSE decls[k]],
          outcome |-> Return(None)]

\* EventsBase.events() of juju.framework: event kind -> bound event, for every declaration
events(decls) ==
    [event_kind \in DOMAIN decls |->
        [event_kind |-> event_kind, event_type |-> decls[event_kind]]]

\* the grouping loop of CharmEvents.relation and CharmEvents.storage
groups(decls, infix) ==
    LET bound == events(decls)
        matching == {event_kind \in DOMAIN bound : Contains(infix, event_kind)}
    IN  IF \E event_kind \in matching : Len(split(event_kind, "_")) # 3
        THEN Raise("ValueError", <<"unpack">>)
        ELSE Return([name \in {split(k, "_")[1] : k \in matching} |->
                        [event_name \in {split(k, "_")[3] :
                                            k \in {e \in matching : split(e, "_")[1] = name}} |->
                            bound[CHOOSE k \in matching :
                                     /\ split(k, "_")[1] = name
                                     /\ split(k, "_")[3] = event_name]]])

relation(decls) == groups(decls, s_relation_)

storage(decls) == groups(decls, s_storage_)

\* a variant that declares no broken event
relation_events_without_broken(relation_name) ==
    << <<relation_name \o s_relation_joined, "RelationJoinedEvent">>,
       <<relation_name \o s_relation_changed, "RelationChangedEvent">>,
       <<relation_name \o s_relation_departed, "RelationDepartedEvent">> >>

\* lines 121-124
relation_events(relation_name) ==
    << <<relation_name \o s_relation_joined, "RelationJoinedEvent">>,
       <<relation_name \o s_relation_changed, "RelationChangedEvent">>,
       <<relation_name \o s_relation_departed, "RelationDepartedEvent">>,
       <<relation_name \o s_relation_broken, "RelationBrokenEvent">> >>

\* lines 127-128
storage_events(storage_name) ==
    << <<storage_name \o s_storage_attached, "StorageAttachedEvent">>,
       <<storage_name \o s_storage_detaching, "StorageDetachingEvent">> >>

RECURSIVE flatten(_)
flatten(ss) == IF Len(ss) = 0 THEN <<>> ELSE ss[1] \o flatten(Tail(ss))

\* the define_event calls of CharmBase.__init__, in order; the first that raises ends it
RECURSIVE define_all(_, _)
define_all(decls, todo) ==
    IF Len(todo) = 0 THEN [declarations |-> decls, outcome |-> Return(None)]
    ELSE CHOOSE result \in
             {IF Raised(r.outcome) THEN r ELSE define_all(r.declarations, Tail(todo)) :
                 r \in {define_event(decls, todo[1][1], todo[1][2])}} : TRUE

CharmBase_init(decls, metadata) ==
    define_all(decls,
               flatten([i \in 1..Len(metadata.relations) |->
                           relation_events(metadata.relations[i][1])])
               \o flatten([i \in 1..Len(metadata.storage) |->
                              storage_events(metadata.storage[i][1])]))

(***************************************************************************)
(* The taxonomy's specification: CharmBase instances are constructed from  *)
(* metadata parsed from raw descriptions, events are defined after         *)
(* construction, and the grouping views are read.                          *)
(***************************************************************************)
TaxonomyDefs ==
    ({"requires", "provides"} \X TaxonomyNames \X {[interface |-> "http"]})
    \cup ({"storage"} \X TaxonomyNames \X {[type |-> "filesystem"]})

ExtraKinds ==
    { <<s_lg \o s_relation_joined, "RelationJoinedEvent">>,
      <<s_a_b \o s_storage_attached, "StorageAttachedEvent">> }

Init ==
    /\ declarations = CharmEvents
    /\ instances = <<>>
    /\ constructions = 0
    /\ extended = {}
    /\ op = "class"
    /\ input = None
    /\ outcome = Return(None)
    /\ pre = CharmEvents

\* CharmBase(framework, key, CharmMetadata(raw))
NewCharmBase ==
    /\ constructions < MaxConstructions
    /\ \E raw \in Raws(TaxonomyDefs, MaxDefs) :
          LET metadata == CharmMetadata(raw)
              r == CharmBase_init(declarations, metadata.val)
          IN  /\ ~ Raised(metadata)
              /\ declarations' = r.declarations
              /\ instances' = IF Raised(r.outcome) THEN instances
                              ELSE Append(instances,
                                          [relations |-> keys(metadata.val.relations),
                                           storage |-> keys(metadata.val.storage),
                                           declared |-> DOMAIN r.declarations])
              /\ outcome' = r.outcome
    /\ constructions' = constructions + 1
    /\ op' = "CharmBase"
    /\ pre' = declarations
    /\ UNCHANGED <<extended, input>>

\* CharmBase.on.define_event(kind, type), called by the application
DefineEvent ==
    /\ \E e \in ExtraKinds :
          LET r == define_event(declarations, e[1], e[2])
          IN  /\ declarations' = r.declarations
              /\ extended' = IF Raised(r.outcome) THEN extended ELSE extended \cup {e[1]}
              /\ outcome' = r.outcome
    /\ op' = "define_event"
    /\ pre' = declarations
    /\ UNCHANGED <<instances, constructions, input>>

\* charm.on.relation
ReadRelation ==
    /\ op' = "relation"
    /\ outcome' = relation(declarations)
    /\ pre' = declarations
    /\ UNCHANGED <<declarations, instances, constructions, extended, input>>

\* charm.on.storage
ReadStorage ==
    /\ op' = "storage"
    /\ outcome' = storage(declarations)
    /\ pre' = declarations
    /\ UNCHANGED <<declarations, instances, constructions, extended, input>>

Next == NewCharmBase \/ DefineEvent \/ ReadRelation \/ ReadStorage

Spec == Init /\ [][Next]_vars

(***************************************************************************)
(* Properties.                                                             *)
(***************************************************************************)
TenFixedKinds ==
    {s_install, s_start, s_stop, s_config_changed, s_update_status, s_upgrade_charm,
     s_pre_series_upgrade, s_post_series_upgrade, s_leader_elected,
     s_leader_settings_changed}

RelationSuffixes ==
    {<<"j","o","i","n","e","d">>, <<"c","h","a","n","g","e","d">>,
     <<"d","e","p","a","r","t","e","d">>, <<"b","r","o","k","e","n">>}

StorageSuffixes ==
    {<<"a","t","t","a","c","h","e","d">>, <<"d","e","t","a","c","h","i","n","g">>}

RelationKinds(R) == {n \o s_relation_ \o m : n \in R, m \in RelationSuffixes}

StorageKinds(S) == {n \o s_storage_ \o m : n \in S, m \in StorageSuffixes}

Elements(seq) == {seq[i] : i \in 1..Len(seq)}

Newest == instances[Len(instances)]

Views == {"relation", "storage"}

\* C1: a construction that starts from the ten fixed declarations succeeds and leaves
\* exactly the ten fixed kinds, N_relation_joined|changed|departed|broken for every
\* relation name N and S_storage_attached|detaching for every storage name S of the
\* metadata: 10 + 4*|R| + 2*|S| declarations.
C1_DeclarationSet ==
    (op = "CharmBase" /\ DOMAIN pre = TenFixedKinds) =>
        /\ ~ Raised(outcome)
        /\ Len(instances) > 0
        /\ LET R == Elements(Newest.relations)
               S == Elements(Newest.storage)
           IN  /\ DOMAIN declarations = TenFixedKinds \cup RelationKinds(R) \cup StorageKinds(S)
               /\ Cardinality(DOMAIN declarations)
                     = 10 + 4 * Cardinality(R) + 2 * Cardinality(S)

C1_Witness ==
    /\ op = "CharmBase"
    /\ DOMAIN pre = TenFixedKinds
    /\ ~ Raised(outcome)
    /\ Len(instances) > 0
    /\ Newest.relations # <<>>
    /\ Newest.storage # <<>>
    /\ Cardinality(DOMAIN declarations) = 16

\* C2 (as claimed): for an instance built on the ten fixed declarations, whatever its
\* names, the relation view has exactly the relation names as keys, each bundle has
\* exactly joined, changed, departed and broken, bound to the declaration
\* N_relation_<member>; and the storage view likewise with attached and detaching.
C2_ViewsGroupByName ==
    (/\ op \in Views
     /\ constructions = 1
     /\ Len(instances) = 1
     /\ extended = {}) =>
        /\ ~ Raised(outcome)
        /\ LET names == IF op = "relation" THEN Elements(instances[1].relations)
                        ELSE Elements(instances[1].storage)
               infix == IF op = "relation" THEN s_relation_ ELSE s_storage_
               members == IF op = "relation" THEN RelationSuffixes ELSE StorageSuffixes
           IN  /\ DOMAIN outcome.val = names
               /\ \A n \in names :
                     /\ DOMAIN outcome.val[n] = members
                     /\ \A m \in members : outcome.val[n][m].event_kind = n \o infix \o m

\* C3 (as claimed): the views never fail; a kind that contains the infix but does not
\* split into three tokens is left out, and no fixed kind is a group name or a member.
C3_ViewsNeverFail ==
    (op \in Views) =>
        /\ ~ Raised(outcome)
        /\ \A n \in DOMAIN outcome.val : \A m \in DOMAIN outcome.val[n] :
              /\ Len(split(outcome.val[n][m].event_kind, "_")) = 3
              /\ outcome.val[n][m].event_kind \notin TenFixedKinds
              /\ n \notin TenFixedKinds

\* C4 (as claimed): every instance's taxonomy holds the fixed kinds and the kinds
\* generated from its own metadata only (and what the application defined later), as
\* when its construction finished; and no construction fails on a kind that another
\* instance's construction registered.
C4_RegistryPerInstance ==
    /\ \A i \in 1..Len(instances) :
          /\ (DOMAIN declarations) \ extended = instances[i].declared \ extended
          /\ instances[i].declared \ extended
                = (TenFixedKinds \cup RelationKinds(Elements(instances[i].relations))
                      \cup StorageKinds(Elements(instances[i].storage))) \ extended
    /\ (op = "CharmBase" /\ Raised(outcome)) =>
          \A i \in 1..Len(instances) :
              outcome.arg \notin RelationKinds(Elements(instances[i].relations))
                                    \cup StorageKinds(Elements(instances[i].storage))

\* C5 (as claimed): a construction that hits a declared kind fails with
\* DuplicateDeclaration naming the kind, yields no instance, and leaves the
\* declarations as they were before it began.
C5_AllOrNothing ==
    (op = "CharmBase" /\ Raised(outcome)) =>
        /\ outcome.exc = "DuplicateDeclaration"
        /\ outcome.arg \in DOMAIN pre
        /\ Len(instances) < constructions
        /\ declarations = pre

\* C9 (as claimed): reading a view leaves the declarations unchanged, two successive
\* reads of the same view return equal mappings, and the mapping read holds every
\* declared kind N_relation_<suffix> (S_storage_<suffix>) under group N (S) and
\* member <suffix>.
C9_ViewsReflectDeclarations ==
    [][(op' \in Views) =>
          /\ declarations' = declarations
          /\ (op = op' /\ pre = declarations) => outcome' = outcome
          /\ ~ Raised(outcome')
          /\ LET infix == IF op' = "relation" THEN s_relation_ ELSE s_storage_
                 members == IF op' = "relation" THEN RelationSuffixes ELSE StorageSuffixes
             IN  \A n \in TaxonomyNames \cup {s_lg} : \A m \in members :
                    (n \o infix \o m \in DOMAIN declarations') =>
                        /\ n \in DOMAIN outcome'.val
                        /\ m \in DOMAIN outcome'.val[n]
                        /\ outcome'.val[n][m].event_kind = n \o infix \o m]_vars

\* C10: a construction never registers the same kind twice: when it fails, the kind it
\* collided on was declared before the construction began, and a construction that
\* starts from the ten fixed declarations does not fail, also when a relation and a
\* storage item share a name or a name holds an underscore.
C10_NoSelfCollision ==
    (op = "CharmBase") =>
        /\ Raised(outcome) =>
              (outcome.exc = "DuplicateDeclaration" /\ outcome.arg \in DOMAIN pre)
        /\ (DOMAIN pre = TenFixedKinds) => ~ Raised(outcome)

C10_Witness ==
    /\ op = "CharmBase"
    /\ DOMAIN pre = TenFixedKinds
    /\ ~ Raised(outcome)
    /\ Len(instances) > 0
    /\ s_a_b \in Elements(Newest.relations) \cap Elements(Newest.storage)

Roles == {"requires", "provides", "peers"}

Section(raw, k) == get(raw, k, <<>>)

Listed(raw, k) == keyset(Section(raw, k))

\* the last of requires, provides, peers that lists name n
LastRole(raw, n) ==
    IF n \in Listed(raw, "peers") THEN "peers"
    ELSE IF n \in Listed(raw, "provides") THEN "provides"
    ELSE "requires"

MissingFields(raw) ==
    {<<d[1], "interface">> : d \in {x \in UNION {Elements(Section(raw, r)) : r \in Roles} :
                                       "interface" \notin DOMAIN x[2]}}
    \cup {<<d[1], "type">> : d \in {x \in UNION {Elements(Section(raw, k)) :
                                                   k \in {"storage", "resources", "payloads"}} :
                                       "type" \notin DOMAIN x[2]}}
    \cup {<<d[1], "filename">> : d \in {x \in Elements(Section(raw, "resources")) :
                                           "filename" \notin DOMAIN x[2]}}

\* C8 (as claimed): parsing fails, with a missing-field error that carries the name of
\* the offending definition and the field, and yields no metadata, whenever a relation
\* lacks 'interface', a storage or payload lacks 'type' or a resource lacks 'type' or
\* 'filename'; a raw description whose definitions all carry them parses.
C8_MissingFieldNamed ==
    (op = "CharmMetadata") =>
        IF MissingFields(input) # {}
        THEN /\ outcome.exc = "KeyError"
             /\ outcome.val = None
             /\ \E m \in MissingFields(input) :
                   /\ Len(outcome.arg) = 2
                   /\ outcome.arg[1] = m[1]
                   /\ outcome.arg[2] = m[2]
        ELSE ~ Raised(outcome)

CountOf(c, s) == Cardinality({i \in 1..Len(s) : s[i] = c})

IsInteger(s) == Len(s) > 0 /\ \A i \in 1..Len(s) : s[i] \in Digits

\* C7 (as claimed): the range of a token is (n, n) for an integer n without '-',
\* (lo, hi) for 'lo-hi', (lo, None) for 'lo-', and every other token (empty or
\* non-numeric lower part, non-numeric upper part, more than one '-') fails with the
\* conversion error and yields no storage definition.
C7_RangeGrammar ==
    (op = "StorageDefinition") =>
        LET parts == split(input, "-")
        IN  IF CountOf("-", input) = 0 /\ IsInteger(input)
            THEN /\ ~ Raised(outcome)
                 /\ outcome.val.range = <<DecimalValue(input), Some(DecimalValue(input))>>
            ELSE IF CountOf("-", input) = 1 /\ IsInteger(parts[1]) /\ IsInteger(parts[2])
            THEN /\ ~ Raised(outcome)
                 /\ outcome.val.range
                       = <<DecimalValue(parts[1]), Some(DecimalValue(parts[2]))>>
            ELSE IF CountOf("-", input) = 1 /\ IsInteger(parts[1]) /\ parts[2] = <<>>
            THEN /\ ~ Raised(outcome)
                 /\ outcome.val.range = <<DecimalValue(parts[1]), None>>
            ELSE /\ outcome.exc = "ValueError"
                 /\ outcome.val = None

====
